---- MODULE Spec2Model ----
(***************************************************************************)
(* A model of gisard/migrate: the sequential migration engine that reads   *)
(* an ordered item list (migrate.txt), resolves the unapplied suffix to    *)
(* handlers and executes them one by one, recording progress in the        *)
(* single-row schema table {version, dirty}.                               *)
(***************************************************************************)
EXTENDS Integers, Sequences, FiniteSets, TLC

(***************************************************************************)
(* Bounds of the model.                                                    *)
(***************************************************************************)
\* longest item list (number of lines the scanner yields from migrate.txt)
MaxLines == 3
\* most pre-built handlers ever added to one engine instance by AddHandlers
MaxAdded == 1
\* most Run calls in one behaviour
MaxRuns == 2

(***************************************************************************)
(* Names.  A name is kept as its stem and its extension, so that path.Ext  *)
(* is a projection and equality of names is equality of both parts.        *)
(***************************************************************************)
Name(base, ext) == [base |-> base, ext |-> ext]

\* the empty line of the item list
Blank == Name("", "")

\* extensions the resolver knows (sqlFileExt, funcExt)
sqlFileExt == ".sql"
funcExt == ""

\* path.Ext: the suffix of the name starting at its last dot
Ext(item) == item.ext

\* the lines an item list is written from: two SQL files that exist (one of
\* them empty), one that does not, a well-formed procedure, a procedure with
\* a wrong signature, a name with an unknown extension, and the empty line
Lines ==
    { Name("a", ".sql"), Name("e", ".sql"), Name("m", ".sql"),
      Name("F", ""), Name("B", ""), Name("x", ".bin"), Blank }

\* the regular files of the migrations directory (os.ReadDir): the item
\* list itself, two SQL files and one stray file without extension
DirFiles ==
    { Name("migrate", ".txt"), Name("a", ".sql"), Name("e", ".sql"),
      Name("G", "") }

\* the text of a SQL file of the directory ("" is the empty file)
FileContent(item) == IF item = Name("e", ".sql") THEN "" ELSE "stmt"

\* the objects a caller may register, each with its exported methods in the
\* order reflect lists them (sorted by name)
Objects == {"O1", "O2"}

MethodsOf(object) ==
    IF object = "O1" THEN << Name("B", ""), Name("F", "") >>
    ELSE << Name("F", ""), Name("G", "") >>

\* an instance is given as many objects as there are objects to give (the
\* same one twice, too)
MaxObjects == Cardinality(Objects)

\* whether the method has the shape func(context.Context) error
SignatureOk(name) == name # Name("B", "")

(***************************************************************************)
(* Errors: the kind (the format constant it is built from), and the number *)
(* or the name the format carries.                                         *)
(***************************************************************************)
Err(kind, num, item) == [kind |-> kind, num |-> num, item |-> item]

Nil == Err("nil", 0, Blank)

\* the error of a statement on the schema table that the driver rejects (no
\* format of this package)
StoreErr == Err("store", 0, Blank)

\* the error of a BeginTx that the driver rejects
BeginErr == Err("begin", 0, Blank)

(***************************************************************************)
(* getSchemaItems: the scanner loop over the lines of the item list.       *)
(***************************************************************************)
\* the scanner loop without the entry itemMap[line] = struct{}{}
RECURSIVE ScanItemsForgetful(_, _, _, _)
ScanItemsForgetful(lines, index, itemMap, schemaItems) ==
    IF index > Len(lines)
    THEN [items |-> schemaItems, err |-> Nil]
    ELSE LET line == lines[index] IN
         IF line = Blank
         THEN IF index + 1 > Len(lines)
              THEN [items |-> schemaItems, err |-> Nil]
              ELSE [items |-> << >>, err |-> Err("schemaRecordIsEmpty", index, Blank)]
         ELSE IF line \in itemMap
              THEN [items |-> << >>, err |-> Err("schemaItemIsDuplicate", 0, line)]
              ELSE ScanItemsForgetful(lines, index + 1, itemMap,
                                      Append(schemaItems, line))

RECURSIVE ScanItems(_, _, _, _)
ScanItems(lines, index, itemMap, schemaItems) ==
    IF index > Len(lines)
    THEN [items |-> schemaItems, err |-> Nil]
    ELSE LET line == lines[index] IN
         IF line = Blank
         THEN IF index + 1 > Len(lines)
              THEN [items |-> schemaItems, err |-> Nil]
              ELSE [items |-> << >>, err |-> Err("schemaRecordIsEmpty", index, Blank)]
         ELSE IF line \in itemMap
              THEN [items |-> << >>, err |-> Err("schemaItemIsDuplicate", 0, line)]
              ELSE ScanItems(lines, index + 1, itemMap \cup {line},
                             Append(schemaItems, line))

\* getSchemaItems that skips empty lines instead of rejecting them
getSchemaItemsSkipBlank(lines) ==
    ScanItems(SelectSeq(lines, LAMBDA l : l # Blank), 1, {}, << >>)

getSchemaItems(lines) == ScanItems(lines, 1, {}, << >>)

(***************************************************************************)
(* getMethods: the methods of the registered objects, by name.             *)
(***************************************************************************)
RECURSIVE ScanMethods(_, _, _, _)
ScanMethods(objects, o, i, methods) ==
    IF o > Len(objects)
    THEN [methods |-> methods, err |-> Nil]
    ELSE IF i > Len(MethodsOf(objects[o]))
         THEN ScanMethods(objects, o + 1, 1, methods)
         ELSE LET mt == MethodsOf(objects[o])[i] IN
              IF mt \in methods
              THEN [methods |-> {}, err |-> Err("funcNameIsDuplicate", 0, mt)]
              ELSE ScanMethods(objects, o, i + 1, methods \cup {mt})

\* getMethods where a later method of the same name replaces the earlier
getMethodsLastWins(objects) ==
    [methods |-> UNION {{MethodsOf(objects[o])[i] :
                            i \in 1..Len(MethodsOf(objects[o]))} :
                        o \in 1..Len(objects)},
     err |-> Nil]

getMethods(objects) == ScanMethods(objects, 1, 1, {})

\* getFileNames: the names of the directory's regular files (a directory
\* never lists a name twice)
getFileNames == DirFiles

\* the check after getFileNames: a file named like a method
FileSameAsFunc(fileNameMap, methodMap) == fileNameMap \cap methodMap

(***************************************************************************)
(* Handlers.                                                               *)
(***************************************************************************)
newSQLHandler(index, query) ==
    [kind |-> "sql", index |-> index, query |-> query]

newGoHandler(index, method) ==
    [kind |-> "go", index |-> index, query |-> ""]

\* a handler a caller built itself and passed to AddHandlers
CustomHandler(index) ==
    [kind |-> "custom", index |-> index, query |-> ""]

checkMethodFormat(method) ==
    IF SignatureOk(method) THEN Nil ELSE Err("funcFormatNotCorrect", 0, method)

(***************************************************************************)
(* Step 5 of Run: the loop that builds the handlers of items[version..].   *)
(* i is the 0-based loop variable; a failure keeps what was appended.      *)
(***************************************************************************)
\* the handler loop that passes over an item it cannot resolve
RECURSIVE BuildHandlersLenient(_, _, _, _, _)
BuildHandlersLenient(items, i, fileNameMap, methodMap, hs) ==
    IF i >= Len(items)
    THEN [handlers |-> hs, err |-> Nil]
    ELSE LET item == items[i + 1] IN
         IF Ext(item) = sqlFileExt /\ item \in fileNameMap
         THEN BuildHandlersLenient(items, i + 1, fileNameMap, methodMap,
                  Append(hs, newSQLHandler(i + 1, FileContent(item))))
         ELSE IF Ext(item) = funcExt /\ item \in methodMap
                 /\ checkMethodFormat(item) = Nil
         THEN BuildHandlersLenient(items, i + 1, fileNameMap, methodMap,
                  Append(hs, newGoHandler(i + 1, item)))
         ELSE BuildHandlersLenient(items, i + 1, fileNameMap, methodMap, hs)

RECURSIVE BuildHandlers(_, _, _, _, _)
BuildHandlers(items, i, fileNameMap, methodMap, hs) ==
    IF i >= Len(items)
    THEN [handlers |-> hs, err |-> Nil]
    ELSE LET item == items[i + 1] IN
         IF Ext(item) = sqlFileExt
         THEN IF item \notin fileNameMap
              THEN [handlers |-> hs, err |-> Err("fileNameNotExist", 0, item)]
              ELSE BuildHandlers(items, i + 1, fileNameMap, methodMap,
                       Append(hs, newSQLHandler(i + 1, FileContent(item))))
         ELSE IF Ext(item) = funcExt
         THEN IF item \notin methodMap
              THEN [handlers |-> hs, err |-> Err("funcNameNotExist", 0, item)]
              ELSE IF checkMethodFormat(item) # Nil
                   THEN [handlers |-> hs, err |-> checkMethodFormat(item)]
                   ELSE BuildHandlers(items, i + 1, fileNameMap, methodMap,
                            Append(hs, newGoHandler(i + 1, item)))
         ELSE [handlers |-> hs, err |-> Err("fileTypeNotSupported", 0, item)]

(***************************************************************************)
(* Exec of one handler.  fault names what goes wrong inside it; the result *)
(* is the error Exec returns, what became of the step's own effect: "ok"   *)
(* (done, or nothing to do), "fail" (not done, error returned) or "lost"   *)
(* (nil returned although the commit failed), and what became of the       *)
(* transaction: "none" (BeginTx not called), "refused" (BeginTx failed),   *)
(* "rolledback", "committed" or "uncommitted" (Commit failed).             *)
(***************************************************************************)
ExecFaults(h) ==
    IF h.kind = "sql"
    THEN IF h.query = "" THEN {"none"} ELSE {"none", "begin", "exec", "commit"}
    ELSE {"none", "error"}

\* sqlHandler.Exec
SqlExec(h, fault) ==
    IF h.query = ""
    THEN [err |-> Nil, res |-> "ok", tx |-> "none"]
    ELSE IF fault = "begin"
    THEN [err |-> BeginErr, res |-> "fail", tx |-> "refused"]
    ELSE IF fault = "exec"
    THEN [err |-> Err("queryWithIndex", h.index, Blank), res |-> "fail",
          tx |-> "rolledback"]
    ELSE IF fault = "commit"
    THEN [err |-> Nil, res |-> "lost", tx |-> "uncommitted"]
    ELSE [err |-> Nil, res |-> "ok", tx |-> "committed"]

\* GoHandler.Exec: the error of the called method, as it is
GoExec(h, fault) ==
    IF fault = "error"
    THEN [err |-> Err("procedure", h.index, Blank), res |-> "fail", tx |-> "none"]
    ELSE [err |-> Nil, res |-> "ok", tx |-> "none"]

\* Exec of a handler the caller wrote: whatever error it chooses to return
CustomExec(h, fault) ==
    IF fault = "error"
    THEN [err |-> Err("handler", h.index, Blank), res |-> "fail", tx |-> "none"]
    ELSE [err |-> Nil, res |-> "ok", tx |-> "none"]

\* Handler.Exec through the interface
Exec(h, fault) ==
    IF h.kind = "sql" THEN SqlExec(h, fault)
    ELSE IF h.kind = "go" THEN GoExec(h, fault)
    ELSE CustomExec(h, fault)

(***************************************************************************)
(* The schema table: whether it exists, and its rows.                      *)
(***************************************************************************)
Record(version, dirty) == [version |-> version, dirty |-> dirty]

\* the zero value of schema, and the row insertDefaultSchema writes
DefaultRecord == Record(0, FALSE)

\* the local record before getSchemaRecord has returned
NoRecord == Record(-1, FALSE)

\* updateSchema with the write left out
updateSchemaNoWrite(rows, index) == rows

\* updateSchemaQuery: UPDATE ... SET version = ? (every row, no WHERE)
updateSchema(rows, index) ==
    [i \in 1..Len(rows) |-> Record(index, rows[i].dirty)]

\* updateDirty that sets the flag and leaves the version as it is
updateDirtyKeepVersion(rows, index) ==
    [i \in 1..Len(rows) |-> Record(rows[i].version, TRUE)]

\* updateDirtyQuery: UPDATE ... SET version = ?, dirty = 1
updateDirty(rows, index) ==
    [i \in 1..Len(rows) |-> Record(index, TRUE)]

\* IsDirty that never sees the flag
IsDirtyNever(record) == FALSE

\* Run, line 147: the stored record is dirty
IsDirty(record) == record.dirty

\* VersionTooLarge with the comparison left out
VersionTooLargeNever(items, record) == FALSE

\* Run, line 150: the stored version is beyond the item list
VersionTooLarge(items, record) == Len(items) < record.version

\* StartIndex that forgets the stored version
StartIndexFromZero(record) == 0

\* Run, line 154: the 0-based index the handler loop starts from
StartIndex(record) == record.version

(***************************************************************************)
(* Steps 1 to 3 of Run: the errors they may end in ({Nil}: none).  Ranging *)
(* over a Go map takes its keys in any order.                              *)
(***************************************************************************)
Validate(lines, objects) ==
    LET si == getSchemaItems(lines)
        gm == getMethods(objects)
        same == FileSameAsFunc(getFileNames, gm.methods)
    IN  IF si.err # Nil THEN {si.err}
        ELSE IF gm.err # Nil THEN {gm.err}
        ELSE IF same # {} THEN {Err("fileIsSameAsFunc", 0, f) : f \in same}
        ELSE {Nil}

(***************************************************************************)
(* State.                                                                  *)
(***************************************************************************)
Threads == {"t1", "t2"}

\* the callers of the sequential specification
SeqThreads == {"t1"}

VARIABLES
    schemaLines,   \* the lines of migrate.txt
    db,            \* the schema table: [table, rows]
    handlers,      \* migrate.handlers
    applyObjects,  \* migrate.applyObjects
    mutex,         \* migrate.mutex: "free" or the thread holding it
    pc,            \* per thread: where it is in Run ("idle": not in a call)
    record,        \* per thread: Run's local record
    pos,           \* per thread: run's position in the handler list (1-based)
    pending,       \* per thread: run's err, the error Exec returned
    ret,           \* per thread: what its last Run returned (None: nothing yet)
    execLog,       \* per thread: the Exec calls of its current or last Run
    start,         \* per thread: the store and the engine when its Run began
    dbFailed,      \* per thread: a statement on the schema table failed in its Run
    added,         \* handlers this instance got from AddHandlers
    lastRunOk,     \* the last call on this instance was a Run that returned nil
    runs           \* Run calls so far

vars == << schemaLines, db, handlers, applyObjects, mutex, pc, record, pos,
           pending, ret, execLog, start, dbFailed, added, lastRunOk,
           runs >>

None == Err("none", 0, Blank)

RECURSIVE SeqsUpTo(_, _)
SeqsUpTo(S, n) ==
    IF n = 0 THEN {<< >>}
    ELSE LET shorter == SeqsUpTo(S, n - 1)
         IN  shorter \cup {Append(s, x) : s \in shorter, x \in S}

\* the stores a run may find: nothing yet, or the clean record an earlier
\* process left after applying the first v items of the list of its day
InitStores ==
    {[table |-> FALSE, rows |-> << >>]}
    \cup {[table |-> TRUE, rows |-> << Record(v, FALSE) >>] : v \in 0..MaxLines}

NoStart == [db |-> [table |-> FALSE, rows |-> << >>], len |-> 0, afterOk |-> FALSE]

\* NewMigrate: an instance with no handlers and no objects
Init ==
    /\ schemaLines \in SeqsUpTo(Lines, MaxLines)
    /\ db \in InitStores
    /\ handlers = << >>
    /\ applyObjects = << >>
    /\ mutex = "free"
    /\ pc = [t \in Threads |-> "idle"]
    /\ record = [t \in Threads |-> NoRecord]
    /\ pos = [t \in Threads |-> 0]
    /\ pending = [t \in Threads |-> Nil]
    /\ ret = [t \in Threads |-> None]
    /\ execLog = [t \in Threads |-> << >>]
    /\ start = [t \in Threads |-> NoStart]
    /\ dbFailed = [t \in Threads |-> FALSE]
    /\ added = 0
    /\ lastRunOk = FALSE
    /\ runs = 0

(***************************************************************************)
(* The calls.                                                              *)
(***************************************************************************)
\* m.mutex.Lock() that does not wait for the holder
LockNoWait(t) == TRUE

\* m.mutex.Lock(): the call goes on once nobody holds the mutex
Lock(t) == mutex = "free"

\* Run calls begun and not yet returned
Running == Cardinality({t \in Threads : pc[t] # "idle"})

\* a call that is not a Run leaves its caller nothing of an earlier Run
Forget(t) ==
    /\ ret' = [ret EXCEPT ![t] = None]
    /\ execLog' = [execLog EXCEPT ![t] = << >>]
    /\ record' = [record EXCEPT ![t] = NoRecord]
    /\ pending' = [pending EXCEPT ![t] = Nil]
    /\ pos' = [pos EXCEPT ![t] = 0]
    /\ start' = [start EXCEPT ![t] = NoStart]
    /\ dbFailed' = [dbFailed EXCEPT ![t] = FALSE]

\* Run returns e: the deferred Unlock, and the caller has its answer
Return(t, e) ==
    /\ pc' = [pc EXCEPT ![t] = "idle"]
    /\ ret' = [ret EXCEPT ![t] = e]
    /\ mutex' = "free"
    /\ lastRunOk' = (e = Nil)
    /\ runs' = runs + 1

\* NewMigrate: the caller drops the instance and constructs another one
NewMigrate(t) ==
    /\ mutex = "free"
    /\ \A u \in Threads : pc[u] = "idle"
    /\ runs < MaxRuns
    /\ handlers' = << >>
    /\ applyObjects' = << >>
    /\ added' = 0
    /\ lastRunOk' = FALSE
    /\ Forget(t)
    /\ UNCHANGED << schemaLines, db, mutex, pc, runs >>

\* AddHandlers(h): Lock, append, Unlock
AddHandlers(t, h) ==
    /\ pc[t] = "idle"
    /\ Lock(t)
    /\ added < MaxAdded
    /\ runs < MaxRuns
    /\ handlers' = Append(handlers, h)
    /\ added' = added + 1
    /\ lastRunOk' = FALSE
    /\ Forget(t)
    /\ UNCHANGED << schemaLines, db, applyObjects, mutex, pc, runs >>

\* ApplyObjects(o): Lock, append, Unlock
ApplyObjects(t, o) ==
    /\ pc[t] = "idle"
    /\ Lock(t)
    /\ Len(applyObjects) < MaxObjects
    /\ runs < MaxRuns
    /\ applyObjects' = Append(applyObjects, o)
    /\ lastRunOk' = FALSE
    /\ Forget(t)
    /\ UNCHANGED << schemaLines, db, handlers, mutex, pc, added, runs >>

\* Run, lines 119-141: Lock, then steps 1 to 3, which read the item list,
\* the registered objects and the directory
RunBegin(t) ==
    /\ pc[t] = "idle"
    /\ Lock(t)
    /\ runs + Running < MaxRuns
    /\ execLog' = [execLog EXCEPT ![t] = << >>]
    /\ record' = [record EXCEPT ![t] = NoRecord]
    /\ pending' = [pending EXCEPT ![t] = Nil]
    /\ pos' = [pos EXCEPT ![t] = 0]
    /\ start' = [start EXCEPT ![t] =
                    [db |-> db, len |-> Len(handlers), afterOk |-> lastRunOk]]
    /\ dbFailed' = [dbFailed EXCEPT ![t] = FALSE]
    /\ \E e \in Validate(schemaLines, applyObjects) :
          IF e = Nil
          THEN /\ mutex' = t
               /\ pc' = [pc EXCEPT ![t] = "initTable"]
               /\ ret' = [ret EXCEPT ![t] = None]
               /\ UNCHANGED << lastRunOk, runs >>
          ELSE Return(t, e)
    /\ UNCHANGED << schemaLines, db, handlers, applyObjects, added >>

\* initSchemaTable: CREATE TABLE IF NOT EXISTS
InitSchemaTable(t) ==
    /\ pc[t] = "initTable"
    /\ \E ok \in BOOLEAN :
          /\ dbFailed' = [dbFailed EXCEPT ![t] = @ \/ ~ok]
          /\ IF ok
             THEN /\ db' = [db EXCEPT !.table = TRUE]
                  /\ pc' = [pc EXCEPT ![t] = "query"]
                  /\ UNCHANGED << ret, mutex, lastRunOk, runs >>
             ELSE /\ Return(t, StoreErr)
                  /\ UNCHANGED db
    /\ UNCHANGED << schemaLines, handlers, applyObjects, record, pos, pending,
                    execLog, start, added >>

\* getSchemaRecord, lines 237-242: SELECT ... LIMIT 1 and Scan
QuerySchemaRecord(t) ==
    /\ pc[t] = "query"
    /\ \E ok \in BOOLEAN :
          /\ dbFailed' = [dbFailed EXCEPT ![t] = @ \/ ~ok]
          /\ IF ~ok
             THEN /\ Return(t, StoreErr)
                  /\ UNCHANGED record
             ELSE IF db.rows = << >>
             THEN /\ pc' = [pc EXCEPT ![t] = "insert"]
                  /\ UNCHANGED << record, ret, mutex, lastRunOk, runs >>
             ELSE /\ \E i \in 1..Len(db.rows) :
                        record' = [record EXCEPT ![t] = db.rows[i]]
                  /\ pc' = [pc EXCEPT ![t] = "resolve"]
                  /\ UNCHANGED << ret, mutex, lastRunOk, runs >>
    /\ UNCHANGED << schemaLines, db, handlers, applyObjects, pos, pending,
                    execLog, start, added >>

\* getSchemaRecord, lines 243-249: no row yet, insert the default one
InsertDefaultSchema(t) ==
    /\ pc[t] = "insert"
    /\ \E ok \in BOOLEAN :
          /\ dbFailed' = [dbFailed EXCEPT ![t] = @ \/ ~ok]
          /\ IF ok
             THEN /\ db' = [db EXCEPT !.rows = Append(db.rows, DefaultRecord)]
                  /\ record' = [record EXCEPT ![t] = DefaultRecord]
                  /\ pc' = [pc EXCEPT ![t] = "resolve"]
                  /\ UNCHANGED << ret, mutex, lastRunOk, runs >>
             ELSE /\ Return(t, StoreErr)
                  /\ UNCHANGED << db, record >>
    /\ UNCHANGED << schemaLines, handlers, applyObjects, pos, pending,
                    execLog, start, added >>

\* Run, lines 147-185: the two checks of the record, the handler loop, and
\* the entry into run (which returns nil at once on an empty list)
Resolve(t) ==
    /\ pc[t] = "resolve"
    /\ LET items == getSchemaItems(schemaLines).items
           built == BuildHandlers(items, StartIndex(record[t]), getFileNames,
                                  getMethods(applyObjects).methods, handlers)
       IN  IF IsDirty(record[t])
           THEN /\ Return(t, Err("findDirtyIndex", record[t].version, Blank))
                /\ UNCHANGED << handlers, pos >>
           ELSE IF VersionTooLarge(items, record[t])
           THEN /\ Return(t, Err("schemaVersionLargeRecord", record[t].version, Blank))
                /\ UNCHANGED << handlers, pos >>
           ELSE /\ handlers' = built.handlers
                /\ IF built.err # Nil
                   THEN Return(t, built.err) /\ UNCHANGED pos
                   ELSE IF built.handlers = << >>
                   THEN Return(t, Nil) /\ UNCHANGED pos
                   ELSE /\ pos' = [pos EXCEPT ![t] = 1]
                        /\ pc' = [pc EXCEPT ![t] = "exec"]
                        /\ UNCHANGED << ret, mutex, lastRunOk, runs >>
    /\ UNCHANGED << dbFailed, schemaLines, db, applyObjects, record, pending, execLog,
                    start, added >>

\* run, line 297: handler.Exec(ctx)
HandlerExec(t) ==
    /\ pc[t] = "exec"
    /\ LET h == handlers[pos[t]] IN
       \E fault \in ExecFaults(h) :
          LET r == Exec(h, fault) IN
          /\ execLog' = [execLog EXCEPT ![t] =
                 Append(@, [index |-> h.index, kind |-> h.kind, res |-> r.res,
                            tx |-> r.tx])]
          /\ pending' = [pending EXCEPT ![t] = r.err]
          /\ pc' = [pc EXCEPT ![t] =
                 IF r.err # Nil THEN "markDirty" ELSE "markApplied"]
    /\ UNCHANGED << dbFailed, schemaLines, db, handlers, applyObjects, mutex, record,
                    pos, ret, start, added, lastRunOk, runs >>

\* FailedStepError that keeps the handler's error whatever the write did
FailedStepErrorOfHandler(err, innerErr) == err

\* run, lines 302-305: the error run returns for a failed handler, err the
\* handler's and innerErr that of the dirty write
FailedStepError(err, innerErr) == IF innerErr # Nil THEN innerErr ELSE err

\* run, lines 299-305: the handler failed, write dirty and return
MarkDirty(t) ==
    /\ pc[t] = "markDirty"
    /\ \E ok \in BOOLEAN :
          /\ dbFailed' = [dbFailed EXCEPT ![t] = @ \/ ~ok]
          /\ IF ok
             THEN /\ db' = [db EXCEPT !.rows =
                               updateDirty(@, handlers[pos[t]].index)]
                  /\ Return(t, FailedStepError(pending[t], Nil))
             ELSE /\ Return(t, FailedStepError(pending[t], StoreErr))
                  /\ UNCHANGED db
    /\ UNCHANGED << schemaLines, handlers, applyObjects, record, pos, pending,
                    execLog, start, added >>

\* MarkApplied that drops the error of the write and goes on
MarkAppliedIgnoresError(t) ==
    /\ pc[t] = "markApplied"
    /\ \E ok \in BOOLEAN :
          /\ dbFailed' = [dbFailed EXCEPT ![t] = @ \/ ~ok]
          /\ db' = IF ok
                   THEN [db EXCEPT !.rows =
                            updateSchema(@, handlers[pos[t]].index)]
                   ELSE db
          /\ IF pos[t] = Len(handlers)
             THEN Return(t, Nil) /\ UNCHANGED pos
             ELSE /\ pos' = [pos EXCEPT ![t] = @ + 1]
                  /\ pc' = [pc EXCEPT ![t] = "exec"]
                  /\ UNCHANGED << ret, mutex, lastRunOk, runs >>
    /\ UNCHANGED << schemaLines, handlers, applyObjects, record, pending,
                    execLog, start, added >>

\* run, lines 307-314: the handler succeeded, write its index and go on
MarkApplied(t) ==
    /\ pc[t] = "markApplied"
    /\ \E ok \in BOOLEAN :
          /\ dbFailed' = [dbFailed EXCEPT ![t] = @ \/ ~ok]
          /\ IF ok
             THEN /\ db' = [db EXCEPT !.rows =
                               updateSchema(@, handlers[pos[t]].index)]
                  /\ IF pos[t] = Len(handlers)
                     THEN Return(t, Nil) /\ UNCHANGED pos
                     ELSE /\ pos' = [pos EXCEPT ![t] = @ + 1]
                          /\ pc' = [pc EXCEPT ![t] = "exec"]
                          /\ UNCHANGED << ret, mutex, lastRunOk, runs >>
             ELSE /\ Return(t, StoreErr)
                  /\ UNCHANGED << db, pos >>
    /\ UNCHANGED << schemaLines, handlers, applyObjects, record, pending,
                    execLog, start, added >>

\* the index a caller gives the handlers it builds itself: one beyond every
\* item list
CustomIndexes == {MaxLines + 1}

Step(t) ==
    \/ NewMigrate(t)
    \/ \E i \in CustomIndexes : AddHandlers(t, CustomHandler(i))
    \/ \E o \in Objects : ApplyObjects(t, o)
    \/ RunBegin(t)
    \/ InitSchemaTable(t)
    \/ QuerySchemaRecord(t)
    \/ InsertDefaultSchema(t)
    \/ Resolve(t)
    \/ HandlerExec(t)
    \/ MarkDirty(t)
    \/ MarkApplied(t)

\* one caller at a time
Next == \E t \in SeqThreads : Step(t)

Spec == Init /\ [][Next]_vars

\* the engine set to work on a database that has no schema table yet
FreshInit == Init /\ db = [table |-> FALSE, rows |-> << >>]

FreshSpec == FreshInit /\ [][Next]_vars

\* two callers sharing the instance, their calls in any order
ConcNext == \E t \in Threads : Step(t)

\* the item lists of the concurrent specification: written from a SQL file
\* and a procedure (a repeated line still makes a list steps 1 to 3 reject,
\* and the procedure resolves only once its object is registered)
ConcLines == { Name("a", ".sql"), Name("F", "") }

ConcInit == Init /\ schemaLines \in SeqsUpTo(ConcLines, MaxLines)

ConcSpec == ConcInit /\ [][ConcNext]_vars

(***************************************************************************)
(* The vocabulary of the properties.  What a property assumes of the item  *)
(* list and of the registered objects is said here over the lines and the  *)
(* objects themselves, not through the functions of the engine.            *)
(***************************************************************************)
\* thread t has called Run, Run has returned, and t has called nothing since
Done(t) == pc[t] = "idle" /\ ret[t] # None

Positions == 1..Len(schemaLines)

NoBlankLine == \A i \in Positions : schemaLines[i] # Blank

NoRepeatedLine ==
    \A i, j \in Positions : i # j => schemaLines[i] # schemaLines[j]

WellFormedList == NoBlankLine /\ NoRepeatedLine

\* the names the object registered at position p exposes
Exposed(p) ==
    {MethodsOf(applyObjects[p])[i] : i \in 1..Len(MethodsOf(applyObjects[p]))}

Registered == UNION {Exposed(p) : p \in 1..Len(applyObjects)}

\* the names two registrations both expose
SharedNames ==
    UNION {IF pq[1] # pq[2] THEN Exposed(pq[1]) \cap Exposed(pq[2]) ELSE {} :
               pq \in (1..Len(applyObjects)) \X (1..Len(applyObjects))}

ResolvableItem(item) ==
    \/ item.ext = ".sql" /\ item \in DirFiles
    \/ item.ext = "" /\ item \in Registered /\ SignatureOk(item)

AllResolvable ==
    /\ SharedNames = {}
    /\ Registered \cap DirFiles = {}
    /\ \A i \in Positions : ResolvableItem(schemaLines[i])

\* the indexes of the handlers t's Run has called Exec on, in order
ExecIndexes(t) == [i \in 1..Len(execLog[t]) |-> execLog[t][i].index]

\* every Exec of t's Run did its work and returned nil
AllOk(t) == \A i \in 1..Len(execLog[t]) : execLog[t][i].res = "ok"

\* the sequence a, a+1, ..., b
Ordinals(a, b) == [i \in 1..(b - a + 1) |-> a + i - 1]

IsPrefix(s, r) ==
    /\ Len(s) <= Len(r)
    /\ \A i \in 1..Len(s) : s[i] = r[i]

\* the schema table holds exactly this one record
StoredIs(version, dirty) == db.rows = << Record(version, dirty) >>

(***************************************************************************)
(* C1.  One Run of a new engine (no handler added, none left by an earlier *)
(* Run) against a store without a row, over a well-formed list of N        *)
(* resolvable items whose steps all succeed and whose writes to the schema *)
(* table all succeed: Run returns nil, has called Exec on the steps        *)
(* 1, 2, ..., N, each once and in that order, and the record is            *)
(* {version: N, dirty: false}.                                             *)
(***************************************************************************)
C1_Pre(t) ==
    /\ Done(t)
    /\ start[t].len = 0
    /\ start[t].db.rows = << >>
    /\ WellFormedList
    /\ AllResolvable
    /\ AllOk(t)
    /\ ~dbFailed[t]

C1_FreshRunAppliesAll ==
    \A t \in Threads :
        C1_Pre(t) =>
            /\ ret[t] = Nil
            /\ ExecIndexes(t) = Ordinals(1, Len(schemaLines))
            /\ StoredIs(Len(schemaLines), FALSE)

\* a fresh run over three items, one of them a procedure, has returned
C1_Witness ==
    \E t \in Threads :
        /\ C1_Pre(t)
        /\ Len(schemaLines) >= 3
        /\ \E i \in Positions : schemaLines[i] = Name("F", "")
        /\ Len(execLog[t]) = Len(schemaLines)

(***************************************************************************)
(* C2.  A second Run on the same instance, right after a Run that returned *)
(* nil: it calls no handler's Exec and leaves the schema table as it was.  *)
(***************************************************************************)
C2_SecondRunIdempotent ==
    \A t \in Threads :
        start[t].afterOk => execLog[t] = << >> /\ db = start[t].db

(***************************************************************************)
(* C3.  Resume.  A new engine runs against the stored record               *)
(* {version: v, dirty: false}, v <= N, N the length of the well-formed     *)
(* list.  At every moment of the Run the steps executed so far are         *)
(* v+1, v+2, ... in that order, each once, and none of 1..v; a Run that    *)
(* returns nil has executed exactly v+1..N; it does return nil when every  *)
(* item resolves and every step and write succeeds; and with v = N a Run   *)
(* that gets to the record executes nothing and returns nil.               *)
(***************************************************************************)
C3_Pre(t) ==
    /\ start[t].len = 0
    /\ Len(start[t].db.rows) = 1
    /\ ~start[t].db.rows[1].dirty
    /\ start[t].db.rows[1].version <= Len(schemaLines)
    /\ WellFormedList

C3_ResumeFromStoredVersion ==
    \A t \in Threads :
        C3_Pre(t) =>
            LET v == start[t].db.rows[1].version
                N == Len(schemaLines)
            IN  /\ IsPrefix(ExecIndexes(t), Ordinals(v + 1, N))
                /\ Done(t) /\ ret[t] = Nil => ExecIndexes(t) = Ordinals(v + 1, N)
                /\ Done(t) /\ AllResolvable /\ AllOk(t) /\ ~dbFailed[t]
                       => ret[t] = Nil
                /\ Done(t) /\ v = N /\ record[t] # NoRecord
                       => ret[t] = Nil /\ execLog[t] = << >>

\* a new engine found version 1 of 3 and has run steps 2 and 3
C3_Witness ==
    \E t \in Threads :
        /\ C3_Pre(t)
        /\ Done(t)
        /\ start[t].db.rows[1].version = 1
        /\ Len(schemaLines) = 3
        /\ ret[t] = Nil
        /\ Len(execLog[t]) = 2

(***************************************************************************)
(* C4.  Fail-stop, for engines no handler was added to by AddHandlers: the *)
(* step with index i failed in a Run and the dirty write succeeded.  Then  *)
(* the record is {version: i, dirty: true}, Run returned an error, and the *)
(* Run executed no step with an index greater than i.                      *)
(***************************************************************************)
C4_Pre(t) ==
    /\ Done(t)
    /\ added = 0
    /\ execLog[t] # << >>
    /\ execLog[t][Len(execLog[t])].res = "fail"
    /\ ~dbFailed[t]

C4_FailStop ==
    \A t \in Threads :
        C4_Pre(t) =>
            LET i == execLog[t][Len(execLog[t])].index
            IN  /\ StoredIs(i, TRUE)
                /\ ret[t] # Nil
                /\ \A k \in 1..Len(execLog[t]) : execLog[t][k].index <= i

(***************************************************************************)
(* C5.  Dirty is terminal.  A Run that begins while the stored record is   *)
(* dirty calls no Exec and leaves the schema table as it was, whatever     *)
(* handlers the instance holds; it returns an error, and when it gets as   *)
(* far as the record (the item list and the registered objects passed      *)
(* steps 1 to 3 and the table could be read) that error is the dirty-state *)
(* error with the stored version.  No step of any call turns a dirty       *)
(* record into a clean one or changes its version.                         *)
(***************************************************************************)
StartedDirty(t) == start[t].db.rows # << >> /\ start[t].db.rows[1].dirty

C5_RunOnDirty ==
    \A t \in Threads :
        StartedDirty(t) =>
            /\ execLog[t] = << >>
            /\ db = start[t].db
            /\ Done(t) => ret[t] # Nil
            /\ Done(t) /\ record[t] # NoRecord
                   => ret[t] = Err("findDirtyIndex",
                                   start[t].db.rows[1].version, Blank)

C5_DirtyStays ==
    (db.rows # << >> /\ db.rows[1].dirty) => db' = db

C5_DirtyIsTerminal == [] C5_RunOnDirty /\ [][C5_DirtyStays]_vars

\* a Run on an instance that holds handlers found the record dirty
C5_Witness ==
    \E t \in Threads :
        /\ StartedDirty(t)
        /\ Done(t)
        /\ start[t].len > 0
        /\ ret[t].kind = "findDirtyIndex"

(***************************************************************************)
(* C6.  No silent success, for engines no handler was added to by          *)
(* AddHandlers and a well-formed list of N items: when Run returns nil,    *)
(* the record is {version: N, dirty: false} and every step that was not    *)
(* yet applied when the Run began has been executed and has done its work. *)
(***************************************************************************)
StartVersion(t) ==
    IF start[t].db.rows = << >> THEN 0 ELSE start[t].db.rows[1].version

C6_NoSilentSuccess ==
    \A t \in Threads :
        Done(t) /\ added = 0 /\ WellFormedList /\ ret[t] = Nil =>
            /\ StoredIs(Len(schemaLines), FALSE)
            /\ \A i \in (StartVersion(t) + 1)..Len(schemaLines) :
                  \E k \in 1..Len(execLog[t]) :
                      execLog[t][k].index = i /\ execLog[t][k].res = "ok"

(***************************************************************************)
(* C7.  The item list has an empty line.  As claimed: Run fails with the   *)
(* empty-record error carrying the position of the first one, has executed *)
(* no step and has not touched or read the schema table.                   *)
(***************************************************************************)
HasBlank == \E k \in Positions : schemaLines[k] = Blank

FirstBlank ==
    CHOOSE k \in Positions :
        schemaLines[k] = Blank /\ \A j \in 1..(k - 1) : schemaLines[j] # Blank

\* some line before position k repeats an earlier one
RepeatBefore(k) ==
    \E i, j \in 1..(k - 1) : i < j /\ schemaLines[i] = schemaLines[j]

StoreUntouched(t) ==
    /\ execLog[t] = << >>
    /\ record[t] = NoRecord
    /\ db = start[t].db

Repeats ==
    {j \in Positions :
        /\ \A m \in 1..j : schemaLines[m] # Blank
        /\ \E i \in 1..(j - 1) : schemaLines[i] = schemaLines[j]}

FirstRepeat == CHOOSE j \in Repeats : \A m \in Repeats : j <= m

C8_DuplicateItemRejected ==
    \A t \in Threads :
        Done(t) /\ Repeats # {} =>
            /\ ret[t] = Err("schemaItemIsDuplicate", 0, schemaLines[FirstRepeat])
            /\ StoreUntouched(t)

\* the third line repeats the first, another identifier between them
C8_Witness ==
    \E t \in Threads :
        /\ Done(t)
        /\ Len(schemaLines) = 3
        /\ schemaLines[1] = schemaLines[3]
        /\ schemaLines[2] # schemaLines[1]
        /\ Repeats = {3}

(***************************************************************************)
(* C9.  Two registered objects expose a method of the same name.  Run      *)
(* returns an error, has executed no step and has not touched or read the  *)
(* schema table; when the item list itself is accepted by step 1 the error *)
(* is the duplicate-procedure error and names a method two objects share,  *)
(* whether the item list mentions it or not.                               *)
(***************************************************************************)
\* what step 1 accepts: no repeated line, an empty line only as the last
ListAccepted ==
    /\ NoRepeatedLine
    /\ \A k \in Positions : schemaLines[k] = Blank => k = Len(schemaLines)

C9_DuplicateProcedureRejected ==
    \A t \in Threads :
        Done(t) /\ SharedNames # {} =>
            /\ ret[t] # Nil
            /\ StoreUntouched(t)
            /\ ListAccepted =>
                  /\ ret[t].kind = "funcNameIsDuplicate"
                  /\ ret[t].item \in SharedNames

\* O1 and O2 both expose F, the list has items and none of them is F
C9_Witness ==
    \E t \in Threads :
        /\ Done(t)
        /\ applyObjects = << "O1", "O2" >>
        /\ ListAccepted
        /\ Len(schemaLines) >= 2
        /\ \A k \in Positions : schemaLines[k] # Name("F", "")
        /\ ret[t] = Err("funcNameIsDuplicate", 0, Name("F", ""))

(***************************************************************************)
(* C10.  The stored record is clean and its version exceeds the number of  *)
(* declared items.  A Run executes no step, not even a handler the         *)
(* instance already holds, and leaves the schema table as it was; when it  *)
(* gets as far as the record it fails with the version-overflow error      *)
(* carrying the stored version.                                            *)
(***************************************************************************)
DeclaredCount == Cardinality({k \in Positions : schemaLines[k] # Blank})

StartedBeyondList(t) ==
    /\ Len(start[t].db.rows) = 1
    /\ ~start[t].db.rows[1].dirty
    /\ start[t].db.rows[1].version > DeclaredCount

C10_VersionOverflowRejected ==
    \A t \in Threads :
        StartedBeyondList(t) =>
            /\ execLog[t] = << >>
            /\ db = start[t].db
            /\ Done(t) => ret[t] # Nil
            /\ Done(t) /\ record[t] # NoRecord
                   => ret[t] = Err("schemaVersionLargeRecord",
                                   start[t].db.rows[1].version, Blank)

\* an instance holding a handler ran against a version beyond the list
C10_Witness ==
    \E t \in Threads :
        /\ StartedBeyondList(t)
        /\ Done(t)
        /\ start[t].len > 0
        /\ DeclaredCount >= 1
        /\ ret[t].kind = "schemaVersionLargeRecord"

(***************************************************************************)
(* C11.  Ordering within a Run.  The Exec calls of a Run follow the        *)
(* handler list, one handler after the other, each once; when the Exec of  *)
(* a handler is about to begin, the handler before it has done its work    *)
(* (its business effect is in place) and the schema table records its      *)
(* index as the version; no Exec follows an Exec that did not do its work, *)
(* and a Run in which a statement on the schema table failed has returned. *)
(***************************************************************************)
C11_StepCommittedBeforeNext ==
    \A t \in Threads :
        /\ Len(execLog[t]) <= Len(handlers)
        /\ \A k \in 1..Len(execLog[t]) : execLog[t][k].index = handlers[k].index
        /\ \A k \in 1..(Len(execLog[t]) - 1) : execLog[t][k].res = "ok"
        /\ pc[t] = "exec" /\ pos[t] > 1 =>
              /\ Len(execLog[t]) = pos[t] - 1
              /\ execLog[t][pos[t] - 1].res = "ok"
              /\ \A r \in 1..Len(db.rows) :
                    db.rows[r].version = handlers[pos[t] - 1].index
        /\ dbFailed[t] => pc[t] = "idle"

(***************************************************************************)
(* C12.  Mutual exclusion on one instance, two callers.  At most one Run   *)
(* is in progress and it holds the mutex.  While a Run is in progress no   *)
(* other caller's call begins or takes effect: the objects and the number  *)
(* of added handlers stay as they are, the handler list changes only by    *)
(* that Run's own handler loop, and no other caller's call state or Exec   *)
(* record changes.                                                         *)
(***************************************************************************)
InRun(t) == pc[t] # "idle"

C12_OneRunAtATime ==
    /\ \A t, u \in Threads : InRun(t) /\ InRun(u) => t = u
    /\ \A t \in Threads : InRun(t) => mutex = t
    /\ mutex # "free" => InRun(mutex)

C12_RunIsAtomic ==
    \A t \in Threads :
        InRun(t) =>
            /\ applyObjects' = applyObjects
            /\ added' = added
            /\ handlers' # handlers => pc[t] = "resolve" /\ pc'[t] # "resolve"
            /\ \A u \in Threads \ {t} :
                  /\ pc'[u] = "idle"
                  /\ execLog'[u] = execLog[u]
                  /\ ret'[u] = ret[u]

C12_MutualExclusion == [] C12_OneRunAtATime /\ [][C12_RunIsAtomic]_vars

\* one caller's Run is executing its second handler after the other caller
\* has registered an object and has had a Run of its own
C12_Witness ==
    /\ pc["t1"] = "exec"
    /\ pos["t1"] = 2
    /\ Done("t2")
    /\ execLog["t2"] # << >>
    /\ applyObjects # << >>

(***************************************************************************)
(* C13.  Run has failed with a resolution error (SQL file not in the       *)
(* directory, procedure not registered, procedure of the wrong shape, item *)
(* of an unknown kind).  As claimed: no step has executed and the schema   *)
(* table is as it was when the Run began: not created, no row inserted,    *)
(* the record not modified.                                                *)
(***************************************************************************)
ResolutionErrors ==
    {"fileNameNotExist", "funcNameNotExist", "funcFormatNotCorrect",
     "fileTypeNotSupported"}

FailedResolving(t) == Done(t) /\ ret[t].kind \in ResolutionErrors

C13_ResolutionErrorStoreUntouched ==
    \A t \in Threads :
        FailedResolving(t) => execLog[t] = << >> /\ db = start[t].db

(***************************************************************************)
(* C13, amended.  When Run fails with a resolution error no step has       *)
(* executed and a record that was stored when the Run began is not         *)
(* modified; the schema table exists by then, and when it had no row the   *)
(* default record {version: 0, dirty: false} has been inserted.  And a Run *)
(* that gets to a clean record within the list does fail so when an item   *)
(* of the unapplied suffix cannot be resolved.                             *)
(***************************************************************************)
\* t's Run has read a clean record whose version is within the item list
ReadCleanRecord(t) ==
    /\ record[t] # NoRecord
    /\ ~record[t].dirty
    /\ record[t].version <= DeclaredCount

UnresolvedInSuffix(t) ==
    \E i \in (record[t].version + 1)..DeclaredCount :
        ~ResolvableItem(schemaLines[i])

C13_ResolutionErrorKeepsRecord ==
    \A t \in Threads :
        /\ FailedResolving(t) =>
              /\ execLog[t] = << >>
              /\ db.table
              /\ db.rows = IF start[t].db.rows = << >>
                           THEN << DefaultRecord >>
                           ELSE start[t].db.rows
        /\ Done(t) /\ ReadCleanRecord(t) /\ UnresolvedInSuffix(t)
              => FailedResolving(t)

\* a Run against a store without a table rejected the second of its items
C13_Witness ==
    \E t \in Threads :
        /\ FailedResolving(t)
        /\ ~start[t].db.table
        /\ Len(handlers) = start[t].len + 1
        /\ db.rows = << DefaultRecord >>

(***************************************************************************)
(* C14.  The meaning of the record, as claimed, after a Run that executed  *)
(* steps and whose statements on the schema table all succeeded: version   *)
(* is the number of steps applied (the version the Run found plus the      *)
(* steps it executed that did their work); dirty is true exactly when the  *)
(* last step executed failed; and that failed step is the one with ordinal *)
(* version + 1, so that version does not count it.                         *)
(***************************************************************************)
\* t's Run executed steps, has returned, and no statement on the table failed
RanSteps(t) == Done(t) /\ execLog[t] # << >> /\ ~dbFailed[t]

LastExec(t) == execLog[t][Len(execLog[t])]

AppliedBy(t) ==
    Cardinality({k \in 1..Len(execLog[t]) : execLog[t][k].res = "ok"})

FoundRecord(t) ==
    IF start[t].db.rows = << >> THEN DefaultRecord ELSE start[t].db.rows[1]

\* the write for the last step t's Run executed is still to come, or failed
WriteNotDone(t) ==
    /\ execLog[t] # << >>
    /\ pc[t] \in {"markApplied", "markDirty"} \/ (Done(t) /\ dbFailed[t])

C15_VersionWithinList ==
    \A r \in 1..Len(db.rows) :
        0 <= db.rows[r].version /\ db.rows[r].version <= DeclaredCount

(***************************************************************************)
(* C16.  The handlers a Run builds are that Run's only.  When no Run is in *)
(* progress the instance holds no handler but those given to AddHandlers,  *)
(* and so every Run began with exactly those: none built by an earlier     *)
(* Run, whether that Run completed, failed while executing, or failed in   *)
(* the handler loop after building some.                                   *)
(***************************************************************************)
C16_HandlersDiscardedAfterRun ==
    /\ (\A t \in Threads : pc[t] = "idle") =>
           \A k \in 1..Len(handlers) : handlers[k].kind = "custom"
    /\ \A t \in Threads :
           InRun(t) \/ Done(t) => start[t].len = added

(***************************************************************************)
(* C17.  The stored version only advances: no step of any call, on this    *)
(* instance or on one constructed later, with the item list fixed, writes  *)
(* a version smaller than the one stored.                                  *)
(***************************************************************************)
C17_VersionWriteAdvances ==
    db.rows # << >> /\ db'.rows # << >> =>
        db'.rows[1].version >= db.rows[1].version

C17_VersionNeverDecreases == [][C17_VersionWriteAdvances]_vars

(***************************************************************************)
(* C18.  The last step a Run executed failed.  When the dirty write        *)
(* succeeded, Run has returned the error the handler's Exec returned, as   *)
(* it is.  When the dirty write failed too, Run has returned the error of  *)
(* that write, which is not the handler's, and the record is the one from  *)
(* before the failing step: clean, with the index of the step recorded     *)
(* last (or as the Run found it).  Either way no handler ran after the     *)
(* failing one.                                                            *)
(***************************************************************************)
FailedInStep(t) ==
    Done(t) /\ execLog[t] # << >> /\ LastExec(t).res = "fail"

\* the errors the Exec of this kind of handler with this index may return
OwnErrors(kind, index) ==
    IF kind = "sql" THEN {BeginErr, Err("queryWithIndex", index, Blank)}
    ELSE IF kind = "go" THEN {Err("procedure", index, Blank)}
    ELSE {Err("handler", index, Blank)}

\* the record before the last step of t's Run
RecordBeforeLast(t) ==
    IF Len(execLog[t]) = 1 THEN FoundRecord(t)
    ELSE Record(execLog[t][Len(execLog[t]) - 1].index, FALSE)

C18_ErrorOfFailedStep ==
    \A t \in Threads :
        FailedInStep(t) =>
            /\ ~dbFailed[t] =>
                  /\ ret[t] = pending[t]
                  /\ ret[t] \in OwnErrors(LastExec(t).kind, LastExec(t).index)
            /\ dbFailed[t] =>
                  /\ ret[t] = StoreErr
                  /\ ret[t] \notin OwnErrors(LastExec(t).kind, LastExec(t).index)
                  /\ db.rows = << RecordBeforeLast(t) >>
                  /\ ~RecordBeforeLast(t).dirty
            /\ pos[t] = Len(execLog[t])
            /\ \A k \in 1..(Len(execLog[t]) - 1) : execLog[t][k].res # "fail"

\* the second step failed and so did the dirty write
C18_Witness ==
    \E t \in Threads :
        /\ FailedInStep(t)
        /\ dbFailed[t]
        /\ Len(execLog[t]) = 2
        /\ Len(handlers) = 3
        /\ StoredIs(1, FALSE)

(***************************************************************************)
(* C19.  The Exec of the last handler a Run called returned nil and the    *)
(* write of its index as the version failed.  Run has returned the error   *)
(* of that write and has called no later handler; the record is not dirty  *)
(* and is the one from before the step, so that, when this Run is the only *)
(* one so far, the table still holds it.  On an engine that held no        *)
(* handler when the Run began that step is the one right after the stored  *)
(* version, and a Run of a new engine that finds this record executes the  *)
(* step right after the stored version first: the same step again.         *)
(***************************************************************************)
VersionWriteFailed(t) ==
    /\ Done(t)
    /\ execLog[t] # << >>
    /\ LastExec(t).res # "fail"
    /\ dbFailed[t]

C19_VersionWriteFailure ==
    \A t \in Threads :
        VersionWriteFailed(t) =>
            /\ ret[t] = StoreErr
            /\ pos[t] = Len(execLog[t])
            /\ ~RecordBeforeLast(t).dirty
            /\ runs = 1 /\ (\A u \in Threads : ~InRun(u)) =>
                  db.rows = << RecordBeforeLast(t) >>
            /\ start[t].len = 0 =>
                  LastExec(t).index = RecordBeforeLast(t).version + 1
            /\ \A u \in Threads \ {t} :
                  /\ start[u].len = 0
                  /\ start[u].db.rows = << RecordBeforeLast(t) >>
                  /\ execLog[u] # << >>
                  => execLog[u][1].index = RecordBeforeLast(t).version + 1

\* the write for step 2 failed in one caller's Run; the other caller made a
\* new engine, which found version 1 and has executed step 2 again
C19_Witness ==
    /\ VersionWriteFailed("t1")
    /\ start["t1"].len = 0
    /\ Len(execLog["t1"]) = 2
    /\ LastExec("t1").res = "ok"
    /\ start["t2"].len = 0
    /\ start["t2"].db.rows = << Record(1, FALSE) >>
    /\ execLog["t2"] # << >>
    /\ execLog["t2"][1].index = 2

(***************************************************************************)
(* C20.  Exec of a SQL handler, for every Exec call of a Run.  With an     *)
(* empty statement it returns nil and begins no transaction.  With a       *)
(* statement it returns nil only when the transaction was begun, the       *)
(* statement executed and the commit succeeded; when the statement fails   *)
(* the transaction is rolled back, nothing of the step stays, and the      *)
(* error returned is the one that carries the handler's index.             *)
(***************************************************************************)
\* what the k-th Exec call of t's Run returned (run goes on only after nil)
Returned(t, k) == IF k = Len(execLog[t]) THEN pending[t] ELSE Nil

C20_SqlExecContract ==
    \A t \in Threads :
        \A k \in 1..Len(execLog[t]) :
            execLog[t][k].kind = "sql" /\ k <= Len(handlers)
                /\ handlers[k].kind = "sql" =>
                LET e == execLog[t][k]
                    h == handlers[k]
                IN  /\ h.query = "" =>
                          Returned(t, k) = Nil /\ e.tx = "none" /\ e.res = "ok"
                    /\ h.query # "" /\ Returned(t, k) = Nil =>
                          e.tx = "committed" /\ e.res = "ok"
                    /\ h.query # "" /\ e.tx = "rolledback" =>
                          /\ e.res = "fail"
                          /\ Returned(t, k) = Err("queryWithIndex", h.index, Blank)

====
